---- MODULE Spec2Model ----
(***************************************************************************)
(* A model of pact-go's process-orchestration control plane:               *)
(*   - the RPC daemon (package daemon): StartServer, ListServers,          *)
(*     StopServer and VerifyProvider against its Service managers;         *)
(*   - the consumer session (dsl.Pact): Setup, AddInteraction, Verify,     *)
(*     WritePact and Teardown.                                             *)
(* The Service managers, the RPC client (PactClient), the mock-service     *)
(* HTTP client and VerifyRequest.Validate are taken from the written       *)
(* specification (sections 4.1, 4.3, 6 and 8).                             *)
(* The three parts share no step, and each is checked under its own        *)
(* specification: SpecDaemon, SpecVerify, SpecSession.  Spec is their      *)
(* composition.                                                            *)
(***************************************************************************)
EXTENDS Integers, Sequences, FiniteSets, TLC

(***************************************************************************)
(* Bounds of the model.                                                    *)
(***************************************************************************)
\* Number of distinct mock-service ports a caller may ask for.
NumPorts == 2
\* Largest process id the operating system hands out in a run.
MaxPid == 2

\* Capacity of an OS pipe, in chunks of output.
PipeCap == 1
\* Most chunks a verifier process writes before it exits.
MaxWrites == 3
\* Most interactions a session declares in a run.
MaxInteractions == 2
\* Most StartServer requests of one session that are followed.
MaxLaunches == 2
\* Most StopDaemon calls made in a run.
MaxStopCalls == 2
\* Most interrupts the operating system delivers in a run.
MaxSignals == 1
\* Number of keys in the verification manager's registry.
NumVerifiers == 1
\* Number of callers of CreateMessage, and most calls each one makes.
NumCallers == 2
MaxMessages == 2
\* Most invocations of one message handler in a run.
MaxRequests == 2

Ports == 1..NumPorts
Pids == 1..MaxPid

\* The text of a nil Go error.
Nil == "nil"

(***************************************************************************)
(* State.                                                                  *)
(***************************************************************************)
VARIABLES
    daemon,      \* "running" | "crashed": the daemon process
    processes,   \* pactMockSvcManager's registry: port -> pid (0: no entry)
    alive,       \* pids of the mock-service OS processes still running
    nextPid,     \* the pid the next spawned process gets
    lastCall,    \* the daemon call that returned last
    prevCall,    \* the daemon call that returned before it
    zeroReplies, \* per pid, the StopServer calls that returned status 0
    vpPc,        \* where the VerifyProvider call stands
    vpRequest,   \* its request
    vpProc,      \* the verifier process: "none" | "running" | "exited"
    vpScript,    \* the writes the verifier process has still to do
    vpExit,      \* the exit code the verifier process ends with
    vpWritten,   \* what the process has written so far, per stream
    outPipe,     \* the stdout pipe's buffer
    errPipe,     \* the stderr pipe's buffer
    stdOut,      \* what VerifyProvider has read from stdout
    stdErr,      \* what VerifyProvider has read from stderr
    vpReply,     \* the caller's reply value
    vpErr,       \* the error VerifyProvider returned
    config,      \* the session's Host, Network and SpecificationVersion
    pactClient,  \* the session's RPC client: <<>> (nil) or <<client>>
    server,      \* the session's Server: <<>> (nil) or <<handle>>
    interactions,    \* the session's Interactions, by identity
    nextInteraction, \* the identity of the next Interaction allocated
    launches,    \* StartServer requests the session has made
    tornDown,    \* Teardown has run on a session holding a server reference
    sessLast,    \* the session operation that returned last
    sessPrev,    \* what is kept of the one before it
    loopPc,      \* StartDaemon: "new" | "waiting" | "shutdown" | "done"
    signalChan,  \* the signals buffered in the daemon's signalChan
    sending,     \* StopDaemon calls that have not yet sent their signal
    stopCalls,   \* StopDaemon calls made so far
    signals,     \* signals the operating system has delivered so far
    verifiers,   \* verificationSvcManager's registry: key -> entry
    todo,        \* the keys Shutdown's loop has still to visit
    asked,       \* the pids Shutdown has called Stop with, in call order
    listed,      \* the keys of the list Shutdown was given to walk
    atShutdown,  \* the mock-service pids tracked when Shutdown began
    shutdowns,   \* how often Shutdown has been called
    messages,    \* per caller of CreateMessage: where its call stands
    bridgeHandlers,  \* <<>> (no bridge) or <<the handler mapping's keys>>
    bridgeLast,  \* the bridge's last request, with its response
    bridgeCalls  \* per description, how often its handler was invoked

daemonVars == <<daemon, processes, alive, nextPid, lastCall, prevCall,
               zeroReplies>>
verifyVars == <<vpPc, vpRequest, vpProc, vpScript, vpExit, vpWritten,
                outPipe, errPipe, stdOut, stdErr, vpReply, vpErr>>
sessionVars == <<config, pactClient, server, interactions, nextInteraction,
                 launches, tornDown, sessLast, sessPrev>>
lifeVars == <<loopPc, signalChan, sending, stopCalls, signals, verifiers, todo,
             asked, listed, atShutdown, shutdowns>>
messageVars == <<messages>>
bridgeVars == <<bridgeHandlers, bridgeLast, bridgeCalls>>
vars == <<daemonVars, verifyVars, sessionVars, lifeVars, messageVars,
          bridgeVars>>

NoCall == [op |-> "none"]

(***************************************************************************)
(* Argument lists of StartServer.  The client appends "--port", <port> to  *)
(* the session's flags; the manager takes the instance's port from there.  *)
(***************************************************************************)
ArgLists ==
    {<<"--port", p>> : p \in Ports}
        \cup {<<"--consumer", "billy", "--port", p>> : p \in Ports}

\* The port an argument list assigns: the element after "--port".
PortOf(args) ==
    LET i == CHOOSE k \in 1..(Len(args) - 1) : args[k] = "--port"
    IN args[i + 1]

(***************************************************************************)
(* Service manager (modelled from the specification, section 4.1).         *)
(***************************************************************************)
\* List(): the tracked instances, keyed by port.
List(procs) == {p \in Ports : procs[p] # 0}

\* Whether a pid is tracked by the registry.
Tracked(procs, pid) == pid # 0 /\ \E p \in Ports : procs[p] = pid

\* Start(): the registry after the spawned process is tracked under its port.
Register(procs, port, pid) == [procs EXCEPT ![port] = pid]

\* Stop(pid): the registry once pid is no longer tracked.
Untrack(procs, pid) ==
    [p \in Ports |-> IF pid # 0 /\ procs[p] = pid THEN 0 ELSE procs[p]]

\* Stop(pid): the (success, error) pairs the manager may report.  An unknown
\* pid is reported as a failure; a tracked one may stop cleanly or not.
StopOutcomes(procs, pid) ==
    IF Tracked(procs, pid)
    THEN {[success |-> s, err |-> e] :
            s \in BOOLEAN, e \in {Nil, "stop failed"}}
    ELSE {[success |-> FALSE, err |-> "unknown process"]}

(***************************************************************************)
(* Daemon handlers.                                                        *)
(***************************************************************************)
DaemonInit ==
    /\ daemon = "running"
    /\ processes = [p \in Ports |-> 0]
    /\ alive = {}
    /\ nextPid = 1
    /\ lastCall = NoCall
    /\ prevCall = NoCall
    /\ zeroReplies = [pid \in Pids |-> 0]

\* What is kept of a call once a later one has returned.
Summary(call) ==
    IF call.op \in {"StartServer", "StopServer"}
    THEN [op |-> call.op, pid |-> call.reply.Pid, port |-> call.port]
    ELSE [op |-> call.op]

Returned(call) ==
    /\ prevCall' = Summary(lastCall)
    /\ lastCall' = call

\* StartServer's reply: only Pid and Status are set; Port and Args stay zero.
StartServerReply(pid) == [Pid |-> pid, Port |-> 0, Status |-> -1]

\* StartServer when the process is spawned.
StartServer(args) ==
    /\ daemon = "running"
    /\ nextPid <= MaxPid
    /\ processes' = Register(processes, PortOf(args), nextPid)
    /\ alive' = alive \cup {nextPid}
    /\ nextPid' = nextPid + 1
    /\ Returned([op |-> "StartServer", port |-> PortOf(args),
                 reply |-> StartServerReply(nextPid), err |-> Nil])
    /\ UNCHANGED <<daemon, zeroReplies>>

\* StartServer when the spawn fails: cmd.Process is nil and reading its Pid
\* faults in the handler's goroutine, which takes the daemon down.
StartServerSpawnFails(args) ==
    /\ daemon = "running"
    /\ daemon' = "crashed"
    /\ UNCHANGED <<processes, alive, nextPid, lastCall, prevCall, zeroReplies>>

\* ListServers' reply: one entry per key of the manager's List().
RECURSIVE ServersOf(_, _)
ServersOf(procs, ports) ==
    IF ports = {} THEN <<>>
    ELSE LET p == CHOOSE q \in ports : TRUE
         IN <<[Pid |-> procs[p], Port |-> p]>> \o ServersOf(procs, ports \ {p})

\* ListServers with the two fields of an entry filled from each other's source.
ListServersReplySwapped(procs) ==
    LET r == ServersOf(procs, List(procs))
    IN [i \in 1..Len(r) |-> [Pid |-> r[i].Port, Port |-> r[i].Pid]]

ListServersReply(procs) == ServersOf(procs, List(procs))

ListServers ==
    /\ daemon = "running"
    /\ Returned([op |-> "ListServers", reply |-> ListServersReply(processes),
                 err |-> Nil])
    /\ UNCHANGED <<daemon, processes, alive, nextPid, zeroReplies>>

\* StopServer reporting success whatever the manager answered.
StopStatusAlwaysZero(success, err) == 0

\* StopServer looking at the success flag alone.
StopStatusIgnoringErr(success, err) == IF success = TRUE THEN 0 ELSE 1

\* The status StopServer sets from the manager's answer.
StopStatus(success, err) == IF success = TRUE /\ err = Nil THEN 0 ELSE 1

\* StopServer replying with the request as received.
StopServerReplyUnset(request, success, err) == request

\* StopServer's reply: the request with its status set.
StopServerReply(request, success, err) ==
    [request EXCEPT !.Status = StopStatus(success, err)]

StopRequests == {[Pid |-> pid, Port |-> 0, Status |-> -1] : pid \in Pids}

\* StopServer.  The handler's one access to shared state is its call of the
\* manager's Stop, which the manager serialises; calls that run concurrently
\* are therefore calls in the order of their Stop.
StopServer(request) ==
    /\ daemon = "running"
    /\ \E res \in StopOutcomes(processes, request.Pid) :
        /\ processes' = Untrack(processes, request.Pid)
        /\ alive' = IF res.success THEN alive \ {request.Pid} ELSE alive
        /\ Returned([op |-> "StopServer", port |-> request.Port,
                     request |-> request,
                     stop |-> res, tracked |-> Tracked(processes, request.Pid),
                     untracked |-> {p \in Ports : processes'[p] # processes[p]},
                     killed |-> alive \ alive',
                     reply |-> StopServerReply(request, res.success, res.err),
                     err |-> Nil])
        /\ zeroReplies' =
              IF StopServerReply(request, res.success, res.err).Status = 0
              THEN [zeroReplies EXCEPT ![request.Pid] = @ + 1]
              ELSE zeroReplies
    /\ UNCHANGED <<daemon, nextPid>>

\* A mock-service process that exits by itself stays in the registry,
\* reported as not running.
ProcessExit(pid) ==
    /\ pid \in alive
    /\ alive' = alive \ {pid}
    /\ UNCHANGED <<daemon, processes, nextPid, lastCall, prevCall, zeroReplies>>

\* The daemon's mock-server calls, with no verification under way.
DaemonNext ==
    \/ \E args \in ArgLists :
          StartServer(args) /\ UNCHANGED <<verifyVars, sessionVars, lifeVars, messageVars, bridgeVars>>
    \/ \E args \in ArgLists :
          StartServerSpawnFails(args) /\ UNCHANGED <<verifyVars, sessionVars, lifeVars, messageVars, bridgeVars>>
    \/ ListServers /\ UNCHANGED <<verifyVars, sessionVars, lifeVars, messageVars, bridgeVars>>
    \/ \E request \in StopRequests :
          StopServer(request) /\ UNCHANGED <<verifyVars, sessionVars, lifeVars, messageVars, bridgeVars>>
    \/ \E pid \in Pids :
          ProcessExit(pid) /\ UNCHANGED <<verifyVars, sessionVars, lifeVars, messageVars, bridgeVars>>

(***************************************************************************)
(* VerifyProvider: the verifier process, its two pipes and the handler.    *)
(* Output is counted in chunks; a chunk of stdout is a JSON document of    *)
(* the result schema, the JSON literal null, or text that is not JSON.     *)
(***************************************************************************)
Results == {"res1"}
OutChunks == Results \cup {"null", "junk"}
ErrChunks == {"e1"}
Writes == {[fd |-> "out", chunk |-> c] : c \in OutChunks}
              \cup {[fd |-> "err", chunk |-> c] : c \in ErrChunks}

\* The sequences over S of length at most n.
RECURSIVE SeqsUpTo(_, _)
SeqsUpTo(S, n) ==
    IF n = 0 THEN {<<>>}
    ELSE LET shorter == SeqsUpTo(S, n - 1)
         IN shorter \cup {Append(q, x) : q \in shorter, x \in S}

Scripts == SeqsUpTo(Writes, MaxWrites)
ExitCodes == {0, 1}

VerifyRequests ==
    {[PactURLs |-> n, BrokerURL |-> b] : n \in {0, 1}, b \in {"", "broker"}}

\* A nil error has no text.
NoError == <<>>

\* VerifyRequest.Validate (modelled from the specification, section 8): a
\* request with no contract location and no broker is rejected.
Validate(request) ==
    IF request.PactURLs = 0 /\ request.BrokerURL = ""
    THEN <<"invalid request">>
    ELSE NoError

VerifyInit ==
    /\ vpPc = "idle"
    /\ vpRequest = [PactURLs |-> 0, BrokerURL |-> ""]
    /\ vpProc = "none"
    /\ vpScript = <<>>
    /\ vpExit = 0
    /\ vpWritten = [out |-> <<>>, err |-> <<>>]
    /\ outPipe = <<>>
    /\ errPipe = <<>>
    /\ stdOut = <<>>
    /\ stdErr = <<>>
    /\ vpReply = "empty"
    /\ vpErr = NoError

\* VerifyProvider going on although validation failed.
FailsValidationNever(request) == FALSE

\* The test VerifyProvider makes on Validate's answer before anything else.
FailsValidation(request) == Validate(request) # NoError

\* VerifyProvider returning the validation error.
VerifyProviderInvalid(request) ==
    /\ vpPc = "idle"
    /\ FailsValidation(request)
    /\ vpRequest' = request
    /\ vpErr' = Validate(request)
    /\ vpPc' = "invalid"
    /\ UNCHANGED <<vpProc, vpScript, vpExit, vpWritten, outPipe, errPipe,
                   stdOut, stdErr, vpReply>>

\* VerifyProvider returning because a pipe could not be attached or the
\* process could not be started.
VerifyProviderLaunchFails(request) ==
    /\ vpPc = "idle"
    /\ ~FailsValidation(request)
    /\ vpRequest' = request
    /\ vpErr' = <<"launch failed">>
    /\ vpPc' = "launchFailed"
    /\ UNCHANGED <<vpProc, vpScript, vpExit, vpWritten, outPipe, errPipe,
                   stdOut, stdErr, vpReply>>

\* VerifyProvider starting the verifier process, which will do the writes
\* of script and end with the exit code.
VerifyProviderStart(request, script, exit) ==
    /\ vpPc = "idle"
    /\ ~FailsValidation(request)
    /\ vpRequest' = request
    /\ vpProc' = "running"
    /\ vpScript' = script
    /\ vpExit' = exit
    /\ vpPc' = "readStdout"
    /\ UNCHANGED <<vpWritten, outPipe, errPipe, stdOut, stdErr, vpReply, vpErr>>

\* The verifier process writes its next chunk, if the pipe has room.
ProcWrite ==
    /\ vpProc = "running"
    /\ vpScript # <<>>
    /\ LET w == Head(vpScript)
       IN /\ IF w.fd = "out"
             THEN /\ Len(outPipe) < PipeCap
                  /\ outPipe' = Append(outPipe, w.chunk)
                  /\ UNCHANGED errPipe
             ELSE /\ Len(errPipe) < PipeCap
                  /\ errPipe' = Append(errPipe, w.chunk)
                  /\ UNCHANGED outPipe
          /\ vpWritten' = [vpWritten EXCEPT ![w.fd] = Append(@, w.chunk)]
    /\ vpScript' = Tail(vpScript)
    /\ UNCHANGED <<vpPc, vpRequest, vpProc, vpExit, stdOut, stdErr, vpReply, vpErr>>

\* The verifier process exits once it has written everything; its ends of
\* the pipes close.
ProcExits ==
    /\ vpProc = "running"
    /\ vpScript = <<>>
    /\ vpProc' = "exited"
    /\ UNCHANGED <<vpPc, vpRequest, vpScript, vpExit, vpWritten, outPipe,
                   errPipe, stdOut, stdErr, vpReply, vpErr>>

\* ioutil.ReadAll(stdOutPipe): takes what is in the pipe, and ends at end of
\* file, which is when the pipe is empty and the process has closed it.
ReadStdout ==
    /\ vpPc = "readStdout"
    /\ IF outPipe # <<>>
       THEN /\ stdOut' = Append(stdOut, Head(outPipe))
            /\ outPipe' = Tail(outPipe)
            /\ UNCHANGED vpPc
       ELSE /\ vpProc = "exited"
            /\ vpPc' = "readStderr"
            /\ UNCHANGED <<stdOut, outPipe>>
    /\ UNCHANGED <<vpRequest, vpProc, vpScript, vpExit, vpWritten, errPipe,
                   stdErr, vpReply, vpErr>>

\* ioutil.ReadAll(stdErrPipe), likewise.
ReadStderr ==
    /\ vpPc = "readStderr"
    /\ IF errPipe # <<>>
       THEN /\ stdErr' = Append(stdErr, Head(errPipe))
            /\ errPipe' = Tail(errPipe)
            /\ UNCHANGED vpPc
       ELSE /\ vpProc = "exited"
            /\ vpPc' = "wait"
            /\ UNCHANGED <<stdErr, errPipe>>
    /\ UNCHANGED <<vpRequest, vpProc, vpScript, vpExit, vpWritten, outPipe,
                   stdOut, vpReply, vpErr>>

\* A read of either pipe fails: VerifyProvider returns the I/O error.
ReadFails ==
    /\ vpPc \in {"readStdout", "readStderr"}
    /\ vpErr' = <<"read failed">>
    /\ vpPc' = "readFailed"
    /\ UNCHANGED <<vpRequest, vpProc, vpScript, vpExit, vpWritten, outPipe,
                   errPipe, stdOut, stdErr, vpReply>>

\* cmd.Wait(): nil for exit code 0, an exit error otherwise.
WaitError(exit) == IF exit = 0 THEN NoError ELSE <<"exit status 1">>

\* decoder.Decode: the error of decoding the first JSON value of the text.
\* What follows the first value is not looked at.
DecodeError(text) ==
    IF text = <<>> THEN <<"EOF">>
    ELSE IF Head(text) \in Results \cup {"null"} THEN NoError
    ELSE <<"invalid character">>

\* decoder.Decode: the reply after decoding.  A document fills the reply; the
\* literal null leaves it as it was, and so does a failed decode.
Decode(reply, text) ==
    IF DecodeError(text) = NoError /\ Head(text) # "null"
    THEN Head(text)
    ELSE reply

\* The error reported when decoding failed, preferring the decode error.
ReportedErrorDecodeFirst(waitErr, dErr) == dErr

\* The error reported when decoding failed: the exit error if there is one.
ReportedError(waitErr, dErr) == IF waitErr = NoError THEN dErr ELSE waitErr

\* The text of the error returned when decoding failed.
CompositeError(err, errText, outText) ==
    <<"error verifying provider: ">> \o err
        \o <<"STDERR:">> \o errText \o <<"STDOUT:">> \o outText

\* VerifyProvider failing whenever the process exited with an error.
VerifyResultExitFirst(waitErr, outText, errText) ==
    IF waitErr = NoError /\ DecodeError(outText) = NoError THEN NoError
    ELSE CompositeError(ReportedError(waitErr, DecodeError(outText)),
                        errText, outText)

\* What VerifyProvider returns after the wait: nil when stdout decodes.
VerifyResult(waitErr, outText, errText) ==
    IF DecodeError(outText) = NoError THEN NoError
    ELSE CompositeError(ReportedError(waitErr, DecodeError(outText)),
                        errText, outText)

\* cmd.Wait() and the decoding of what was read.
WaitAndDecode ==
    /\ vpPc = "wait"
    /\ vpProc = "exited"
    /\ vpReply' = Decode(vpReply, stdOut)
    /\ vpErr' = VerifyResult(WaitError(vpExit), stdOut, stdErr)
    /\ vpPc' = "decoded"
    /\ UNCHANGED <<vpRequest, vpProc, vpScript, vpExit, vpWritten, outPipe,
                   errPipe, stdOut, stdErr>>

\* The steps that take a started verification forward.
VerifyProgress ==
    \/ ProcWrite
    \/ ProcExits
    \/ ReadStdout
    \/ ReadStderr
    \/ WaitAndDecode

\* One VerifyProvider call, with the mock-server calls left aside.
VerifyNext ==
    \/ \E request \in VerifyRequests :
          VerifyProviderInvalid(request) /\ UNCHANGED <<daemonVars, sessionVars, lifeVars, messageVars, bridgeVars>>
    \/ \E request \in VerifyRequests :
          VerifyProviderLaunchFails(request) /\ UNCHANGED <<daemonVars, sessionVars, lifeVars, messageVars, bridgeVars>>
    \/ \E request \in VerifyRequests, script \in Scripts, exit \in ExitCodes :
          /\ VerifyProviderStart(request, script, exit)
          /\ UNCHANGED <<daemonVars, sessionVars, lifeVars, messageVars, bridgeVars>>
    \/ ProcWrite /\ UNCHANGED <<daemonVars, sessionVars, lifeVars, messageVars, bridgeVars>>
    \/ ProcExits /\ UNCHANGED <<daemonVars, sessionVars, lifeVars, messageVars, bridgeVars>>
    \/ ReadStdout /\ UNCHANGED <<daemonVars, sessionVars, lifeVars, messageVars, bridgeVars>>
    \/ ReadStderr /\ UNCHANGED <<daemonVars, sessionVars, lifeVars, messageVars, bridgeVars>>
    \/ WaitAndDecode /\ UNCHANGED <<daemonVars, sessionVars, lifeVars, messageVars, bridgeVars>>
    \/ ReadFails /\ UNCHANGED <<daemonVars, sessionVars, lifeVars, messageVars, bridgeVars>>

(***************************************************************************)
(* The consumer session (dsl.Pact).  Its RPC client and the HTTP client of *)
(* the mock service are modelled from the specification (sections 4.3, 6). *)
(***************************************************************************)
\* The port the test suites give for the daemon.
DaemonPort == 6666

Hosts == {"", "127.0.0.1"}
Versions == {0, 1}

\* The zero value of dsl.Pact's configuration fields.
ZeroConfig ==
    [Host |-> "", Network |-> "", LogDir |-> "", PactDir |-> "",
     SpecificationVersion |-> 0]

\* The zero value of types.MockServer, which a failed remote call leaves.
ZeroServer == [Pid |-> 0, Port |-> 0, Status |-> 0]

NoOp == [op |-> "none"]

SessionInit ==
    /\ config = ZeroConfig
    /\ pactClient = <<>>
    /\ server = <<>>
    /\ interactions = <<>>
    /\ nextInteraction = 1
    /\ launches = 0
    /\ tornDown = FALSE
    /\ sessLast = NoOp
    /\ sessPrev = NoOp

\* Whether the mock service accepted a call of the given name in calls.
Accepted(calls, name) ==
    \E i \in 1..Len(calls) : calls[i].call = name /\ calls[i].ok

\* The calls of the given name in calls.
CallsOf(calls, name) == {i \in 1..Len(calls) : calls[i].call = name}

\* What is kept of a session operation once a later one has returned.
SessSummary(last) ==
    IF last.op = "none" THEN last
    ELSE [op |-> last.op,
          verified |-> Accepted(last.calls, "Verify"),
          registered |-> Cardinality(CallsOf(last.calls, "AddInteraction"))]

Done(last) ==
    /\ sessPrev' = SessSummary(sessLast)
    /\ sessLast' = last

\* The record of an operation: whether it was to start a mock server, whether
\* the session held a server reference, whether it asked the daemon for one,
\* the interaction list it began with, its mock-service calls and its error.
\* Teardown sets how often it asked the daemon to stop a server, and the
\* handle it got back; AddInteraction sets the interaction it returned.
OpRecord(op, startMockServer, calls, err) ==
    [op |-> op, start |-> startMockServer, hadServer |-> server # <<>>,
     launched |-> launches' # launches,
     list |-> interactions,
     stops |-> 0, stopped |-> <<>>, result |-> <<>>,
     calls |-> calls, err |-> err]

\* createPact() of the test suites: the session as the struct literal sets it.
CreatePact(host, version) ==
    /\ sessLast.op = "none"
    /\ config' = [ZeroConfig EXCEPT !.Host = host, !.LogDir = "log",
                                    !.PactDir = "pacts",
                                    !.SpecificationVersion = version]
    /\ UNCHANGED <<pactClient, server, interactions, nextInteraction,
                   launches, tornDown, daemonVars>>
    /\ Done(OpRecord("createPact", FALSE, <<>>, Nil))

\* Setup's defaults for the fields left at their zero value.
SetupDefaults(cfg) ==
    [Host |-> IF cfg.Host = "" THEN "localhost" ELSE cfg.Host,
     Network |-> IF cfg.Network = "" THEN "tcp" ELSE cfg.Network,
     LogDir |-> IF cfg.LogDir = "" THEN "cwd/logs" ELSE cfg.LogDir,
     PactDir |-> IF cfg.PactDir = "" THEN "cwd/pacts" ELSE cfg.PactDir,
     SpecificationVersion |->
        IF cfg.SpecificationVersion = 0 THEN 2 ELSE cfg.SpecificationVersion]

\* The client Setup builds when the session has none.
NewClient(cfg) ==
    [Port |-> DaemonPort, Network |-> cfg.Network, Address |-> cfg.Host]

\* fmt.Sprintf("%d", version).
VersionText(version) == IF version = 1 THEN "1" ELSE "2"

\* The argument list Setup builds for the mock service.
SessionArgs(cfg) ==
    <<"--pact-specification-version", VersionText(cfg.SpecificationVersion),
      "--pact-dir", cfg.PactDir, "--log", cfg.LogDir, "--consumer", "billy",
      "--provider", "bobby">>

\* Setup launching whenever it is asked to start a mock server.
ShouldLaunchWhenAsked(srv, startMockServer) == startMockServer

\* Setup's test for launching a mock server.
ShouldLaunch(srv, startMockServer) == srv = <<>> /\ startMockServer

\* PactClient.StartServer: appends the port to the arguments, calls the
\* daemon and returns a handle with the port set, also when the call failed.
ClientStartServer(args, port) ==
    \/ /\ StartServer(args \o <<"--port", port>>)
       /\ server' = <<[lastCall'.reply EXCEPT !.Port = port]>>
    \/ /\ StartServerSpawnFails(args \o <<"--port", port>>)
       /\ server' = <<[ZeroServer EXCEPT !.Port = port]>>
    \/ /\ daemon = "crashed"
       /\ UNCHANGED daemonVars
       /\ server' = <<[ZeroServer EXCEPT !.Port = port]>>

\* The body of Setup, which AddInteraction, Verify and WritePact run first.
SetupStep(startMockServer) ==
    /\ config' = SetupDefaults(config)
    /\ pactClient' = IF pactClient = <<>> THEN <<NewClient(config')>>
                     ELSE pactClient
    /\ IF ShouldLaunch(server, startMockServer)
       THEN /\ launches < MaxLaunches
            /\ launches' = launches + 1
            /\ \E port \in Ports : ClientStartServer(SessionArgs(config'), port)
       ELSE UNCHANGED <<server, launches, daemonVars>>

Setup(startMockServer) ==
    /\ SetupStep(startMockServer)
    /\ UNCHANGED <<interactions, nextInteraction, tornDown>>
    /\ Done(OpRecord("Setup", startMockServer, <<>>, Nil))

\* AddInteraction putting the new interaction in front.
AppendInteractionInFront(list, i) == <<i>> \o list

\* The list AddInteraction installs: the new interaction goes to the end.
AppendInteraction(list, i) == Append(list, i)

\* AddInteraction: Setup(true), then a newly allocated interaction is
\* appended and returned.
AddInteraction ==
    /\ nextInteraction <= MaxInteractions
    /\ SetupStep(TRUE)
    /\ interactions' = AppendInteraction(interactions, nextInteraction)
    /\ nextInteraction' = nextInteraction + 1
    /\ UNCHANGED tornDown
    /\ Done([OpRecord("AddInteraction", TRUE, <<>>, Nil)
                EXCEPT !.result = <<nextInteraction>>])

\* Whether the mock service behind a server reference can answer at all.
MockAlive(srv, live) == srv # <<>> /\ srv[1].Pid \in live

\* What the mock service and the test function may answer in one Verify:
\* the index of the first registration that fails (0: none does), and
\* whether the test function, the verification and the deletion succeed.
VerifyAnswers(list, up) ==
    {a \in [regFail : 0..Len(list), testOk : BOOLEAN, verifyOk : BOOLEAN,
            deleteOk : BOOLEAN] :
        up \/ (/\ a.regFail = (IF list = <<>> THEN 0 ELSE 1)
               /\ ~a.verifyOk
               /\ ~a.deleteOk)}

\* Verify going on to the next interaction, and to the test function, when a
\* registration fails.
VerifyCallsPastFailedRegistration(list, a) ==
    LET adds == [i \in 1..Len(list) |->
                    [call |-> "AddInteraction", arg |-> list[i],
                     ok |-> i # a.regFail]]
        test == <<[call |-> "testFn", arg |-> 0, ok |-> a.testOk]>>
        verify == <<[call |-> "Verify", arg |-> 0, ok |-> a.verifyOk]>>
        delete == <<[call |-> "DeleteInteractions", arg |-> 0,
                     ok |-> a.deleteOk]>>
    IN IF a.regFail # 0 \/ ~a.testOk THEN adds \o test
       ELSE IF ~a.verifyOk THEN adds \o test \o verify
       ELSE adds \o test \o verify \o delete

\* Verify asking for the verification whatever the test function returned.
VerifyCallsPastFailedTest(list, a) ==
    LET n == IF a.regFail = 0 THEN Len(list) ELSE a.regFail
        adds == [i \in 1..n |->
                    [call |-> "AddInteraction", arg |-> list[i],
                     ok |-> i # a.regFail]]
        test == <<[call |-> "testFn", arg |-> 0, ok |-> a.testOk]>>
        verify == <<[call |-> "Verify", arg |-> 0, ok |-> a.verifyOk]>>
        delete == <<[call |-> "DeleteInteractions", arg |-> 0,
                     ok |-> a.deleteOk]>>
    IN IF a.regFail # 0 THEN adds
       ELSE IF ~a.verifyOk \/ ~a.testOk THEN adds \o test \o verify
       ELSE adds \o test \o verify \o delete

\* Verify's calls, in order: the registrations up to the first that fails,
\* then the test function, the verification and the deletion, each only if
\* what came before succeeded.
VerifyCalls(list, a) ==
    LET n == IF a.regFail = 0 THEN Len(list) ELSE a.regFail
        adds == [i \in 1..n |-> [call |-> "AddInteraction", arg |-> list[i],
                                 ok |-> i # a.regFail]]
        test == <<[call |-> "testFn", arg |-> 0, ok |-> a.testOk]>>
        verify == <<[call |-> "Verify", arg |-> 0, ok |-> a.verifyOk]>>
        delete == <<[call |-> "DeleteInteractions", arg |-> 0,
                     ok |-> a.deleteOk]>>
    IN IF a.regFail # 0 THEN adds
       ELSE IF ~a.testOk THEN adds \o test
       ELSE IF ~a.verifyOk THEN adds \o test \o verify
       ELSE adds \o test \o verify \o delete

\* The error Verify returns: that of the call that failed, if one did.
VerifyError(calls) ==
    IF \A i \in 1..Len(calls) : calls[i].ok THEN Nil
    ELSE calls[Len(calls)].call \o " failed"

\* Verify leaving the list as it is.
ClearedInteractionsKept(list) == list

\* The list Verify installs once the mock service has verified.
ClearedInteractions(list) == <<>>

\* Verify clearing the list only once the mock service has deleted its own.
ListAfterVerifyWhenDeleted(list, calls) ==
    IF Accepted(calls, "DeleteInteractions") THEN ClearedInteractions(list)
    ELSE list

\* The session's list when Verify returns: replaced once the mock service
\* has verified, and before it is asked to delete; left alone on every
\* earlier return.
ListAfterVerify(list, calls) ==
    IF Accepted(calls, "Verify") THEN ClearedInteractions(list) ELSE list

Verify ==
    /\ SetupStep(TRUE)
    /\ \E a \in VerifyAnswers(interactions, MockAlive(server', alive')) :
        LET calls == VerifyCalls(interactions, a)
        IN /\ interactions' = ListAfterVerify(interactions, calls)
           /\ Done(OpRecord("Verify", TRUE, calls, VerifyError(calls)))
    /\ UNCHANGED <<nextInteraction, tornDown>>

WritePact ==
    /\ SetupStep(TRUE)
    /\ \E ok \in BOOLEAN :
        /\ ok => MockAlive(server', alive')
        /\ LET calls == <<[call |-> "WritePact", arg |-> 0, ok |-> ok]>>
           IN Done(OpRecord("WritePact", TRUE, calls, VerifyError(calls)))
    /\ UNCHANGED <<interactions, nextInteraction, tornDown>>

\* PactClient.StopServer: calls the daemon and returns its reply, which is
\* the zero handle when the call failed; stopped is the handle returned.
ClientStopServer(handle, stopped) ==
    \/ /\ StopServer(handle)
       /\ stopped = lastCall'.reply
    \/ /\ daemon = "crashed"
       /\ UNCHANGED daemonVars
       /\ stopped = ZeroServer

\* The handles PactClient.StopServer may return for a handle.
StoppedHandles(handle) ==
    {ZeroServer} \cup {[handle EXCEPT !.Status = st] : st \in {0, 1}}

\* Teardown clearing the server reference.
TeardownServerCleared(stopped) == <<>>

\* The server reference Teardown leaves: what StopServer returned.
TeardownServer(stopped) == <<stopped>>

\* Teardown never asking the daemon.
HoldsServerNever(srv) == FALSE

\* Teardown's test before it asks the daemon to stop the server.
HoldsServer(srv) == srv # <<>>

Teardown ==
    /\ UNCHANGED <<config, pactClient, interactions, nextInteraction, launches>>
    /\ IF HoldsServer(server)
       THEN /\ \E stopped \in StoppedHandles(server[1]) :
                 /\ ClientStopServer(server[1], stopped)
                 /\ server' = TeardownServer(stopped)
                 /\ Done([OpRecord("Teardown", FALSE, <<>>, Nil)
                             EXCEPT !.stops = 1, !.stopped = <<stopped>>])
            /\ tornDown' = TRUE
       ELSE /\ UNCHANGED <<server, tornDown, daemonVars>>
            /\ Done(OpRecord("Teardown", FALSE, <<>>, Nil))

\* One session against the daemon; besides the session's own calls, a
\* mock-service process may exit and another client's failed spawn may take
\* the daemon down.
SessionNext ==
    \/ \E host \in Hosts, version \in Versions :
          CreatePact(host, version) /\ UNCHANGED <<verifyVars, lifeVars, messageVars, bridgeVars>>
    \/ \E startMockServer \in BOOLEAN :
          Setup(startMockServer) /\ UNCHANGED <<verifyVars, lifeVars, messageVars, bridgeVars>>
    \/ AddInteraction /\ UNCHANGED <<verifyVars, lifeVars, messageVars, bridgeVars>>
    \/ Verify /\ UNCHANGED <<verifyVars, lifeVars, messageVars, bridgeVars>>
    \/ WritePact /\ UNCHANGED <<verifyVars, lifeVars, messageVars, bridgeVars>>
    \/ Teardown /\ UNCHANGED <<verifyVars, lifeVars, messageVars, bridgeVars>>
    \/ \E pid \in Pids :
          ProcessExit(pid) /\ UNCHANGED <<verifyVars, sessionVars, lifeVars, messageVars, bridgeVars>>
    \/ \E args \in ArgLists :
          StartServerSpawnFails(args) /\ UNCHANGED <<verifyVars, sessionVars, lifeVars, messageVars, bridgeVars>>

(***************************************************************************)
(* The daemon's lifetime: StartDaemon's main loop, the signal channel,     *)
(* StopDaemon and Shutdown.                                                *)
(***************************************************************************)
\* The capacity NewDaemon gives signalChan.
ChanCap == 1

\* The keys of the verification manager's registry.
VerifierKeys == 1..NumVerifiers

\* An entry of that registry: 0 for no entry, NilEntry for a nil one, or the
\* pid of the process.
NilEntry == -1

LifeInit ==
    /\ loopPc = "new"
    /\ signalChan = 0
    /\ sending = 0
    /\ stopCalls = 0
    /\ signals = 0
    /\ verifiers = [k \in VerifierKeys |-> 0]
    /\ todo = {}
    /\ asked = <<>>
    /\ listed = {}
    /\ atShutdown = {}
    /\ shutdowns = 0

\* StartDaemon up to its receive: the listener is served and the channel is
\* registered for interrupts.
StartDaemon ==
    /\ loopPc = "new"
    /\ daemon = "running"
    /\ loopPc' = "waiting"
    /\ UNCHANGED <<signalChan, sending, stopCalls, signals, verifiers, todo,
                   asked, listed, atShutdown, shutdowns>>

\* Whether the listener serves remote calls.
Serving == loopPc # "new" /\ daemon = "running"

\* A StopDaemon call arrives; its handler is at the send.
StopDaemonCall ==
    /\ Serving
    /\ stopCalls < MaxStopCalls
    /\ stopCalls' = stopCalls + 1
    /\ sending' = sending + 1
    /\ UNCHANGED <<loopPc, signalChan, signals, verifiers, todo, asked,
                   listed, atShutdown, shutdowns>>

\* Whether a send on signalChan can proceed: there is room in the buffer.
CanSend(buffered) == buffered < ChanCap

\* StopDaemon's send and return.
StopDaemonSend ==
    /\ sending > 0
    /\ CanSend(signalChan)
    /\ signalChan' = signalChan + 1
    /\ sending' = sending - 1
    /\ UNCHANGED <<loopPc, stopCalls, signals, verifiers, todo, asked,
                   listed, atShutdown, shutdowns>>

\* The operating system delivers an interrupt: signal.Notify's sender does
\* not block and drops the signal when the buffer is full.
OsSignal ==
    /\ loopPc # "new"
    /\ signals < MaxSignals
    /\ signals' = signals + 1
    /\ signalChan' = IF CanSend(signalChan) THEN signalChan + 1 ELSE signalChan
    /\ UNCHANGED <<loopPc, sending, stopCalls, verifiers, todo, asked,
                   listed, atShutdown, shutdowns>>

\* The verification manager's List(): the keys that hold an entry.
VerifierList(reg) == {k \in VerifierKeys : reg[k] # 0}

\* The verification manager comes to track an entry.
VerifierTracked(k, entry) ==
    /\ verifiers[k] = 0
    /\ verifiers' = [verifiers EXCEPT ![k] = entry]
    /\ UNCHANGED <<loopPc, signalChan, sending, stopCalls, signals, todo, asked,
                   listed, atShutdown, shutdowns>>

\* StartDaemon's receive, and its call of Shutdown.
LoopReceive ==
    /\ loopPc = "waiting"
    /\ signalChan > 0
    /\ signalChan' = signalChan - 1
    /\ loopPc' = "shutdown"
    /\ shutdowns' = shutdowns + 1
    /\ todo' = VerifierList(verifiers)
    /\ atShutdown' = {processes[p] : p \in List(processes)}
    /\ listed' = VerifierList(verifiers)
    /\ asked' = <<>>
    /\ UNCHANGED <<sending, stopCalls, signals, verifiers>>

\* Shutdown skipping no entry.
IsNonNilAlways(entry) == TRUE

\* Shutdown's test of an entry.
IsNonNil(entry) == entry # NilEntry

\* One round of Shutdown's loop: the mock-service manager's Stop is called
\* with the pid of an entry that is not nil.
ShutdownStop(k) ==
    /\ loopPc = "shutdown"
    /\ k \in todo
    /\ todo' = todo \ {k}
    /\ IF IsNonNil(verifiers[k])
       THEN /\ \E res \in StopOutcomes(processes, verifiers[k]) :
                 /\ processes' = Untrack(processes, verifiers[k])
                 /\ alive' = IF res.success THEN alive \ {verifiers[k]}
                              ELSE alive
            /\ asked' = Append(asked, verifiers[k])
       ELSE UNCHANGED <<processes, alive, asked>>
    /\ UNCHANGED <<daemon, nextPid, lastCall, prevCall, zeroReplies>>
    /\ UNCHANGED <<loopPc, signalChan, sending, stopCalls, signals, verifiers,
                   listed, atShutdown, shutdowns>>

\* StartDaemon receiving again once Shutdown has returned.
AfterShutdownWaits == "waiting"

\* Where StartDaemon stands once Shutdown has returned: it returns.
AfterShutdown == "done"

\* Shutdown's loop ends and StartDaemon goes on.
ShutdownReturn ==
    /\ loopPc = "shutdown"
    /\ todo = {}
    /\ loopPc' = AfterShutdown
    /\ UNCHANGED <<signalChan, sending, stopCalls, signals, verifiers, todo,
                   asked, listed, atShutdown, shutdowns>>

\* The daemon from NewDaemon on: its main loop, the signals it is sent, and
\* the remote calls that start mock services meanwhile.
LifeNext ==
    \/ StartDaemon /\ UNCHANGED <<daemonVars, verifyVars, sessionVars, messageVars, bridgeVars>>
    \/ StopDaemonCall /\ UNCHANGED <<daemonVars, verifyVars, sessionVars, messageVars, bridgeVars>>
    \/ StopDaemonSend /\ UNCHANGED <<daemonVars, verifyVars, sessionVars, messageVars, bridgeVars>>
    \/ OsSignal /\ UNCHANGED <<daemonVars, verifyVars, sessionVars, messageVars, bridgeVars>>
    \/ \E k \in VerifierKeys, entry \in Pids \cup {NilEntry} :
          VerifierTracked(k, entry)
             /\ UNCHANGED <<daemonVars, verifyVars, sessionVars, messageVars, bridgeVars>>
    \/ LoopReceive /\ UNCHANGED <<daemonVars, verifyVars, sessionVars, messageVars, bridgeVars>>
    \/ \E k \in VerifierKeys :
          ShutdownStop(k)
             /\ UNCHANGED <<verifyVars, sessionVars, messageVars, bridgeVars>>
    \/ ShutdownReturn /\ UNCHANGED <<daemonVars, verifyVars, sessionVars, messageVars, bridgeVars>>
    \/ \E args \in ArgLists :
          Serving /\ StartServer(args)
             /\ UNCHANGED <<verifyVars, sessionVars, lifeVars, messageVars, bridgeVars>>

(***************************************************************************)
(* CreateMessage.  Each remote call runs in a goroutine of its own, so the *)
(* calls of different callers overlap.                                     *)
(***************************************************************************)
Callers == 1..NumCallers

\* The texts of the errors a message-production run may end with; a run that
\* succeeds ends with NoError.
RunErrors == {<<"">>, <<"exit status 1">>, <<"signal: killed">>}

\* No call made yet; a caller's reply is the zero response, and on a later
\* call holds what the call before left in it.
MessageInit ==
    messages = [c \in Callers |->
                  [pc |-> "idle", calls |-> 0, runs |-> 0, run |-> NoError,
                   reply |-> [Error |-> ""], err |-> NoError]]

\* CreateMessage up to svc.Run(): res is a fresh response, the service is
\* made from an empty argument list.
CreateMessageCall(c) ==
    /\ daemon = "running"
    /\ messages[c].pc # "running"
    /\ messages[c].calls < MaxMessages
    /\ messages' = [messages EXCEPT ![c].pc = "running",
                                    ![c].calls = @ + 1,
                                    ![c].runs = 0,
                                    ![c].run = NoError,
                                    ![c].err = NoError]

\* CreateMessage dropping the error text.
CreateMessageReplyEmpty(err) == [Error |-> ""]

\* The response CreateMessage copies into the reply: its error field is the
\* error's text when the run failed.
CreateMessageReply(err) == [Error |-> IF err # NoError THEN err[1] ELSE ""]

\* svc.Run() comes back with err and CreateMessage returns.
CreateMessageReturn(c, err) ==
    /\ messages[c].pc = "running"
    /\ messages' = [messages EXCEPT ![c].pc = "returned",
                                    ![c].runs = @ + 1,
                                    ![c].run = err,
                                    ![c].reply = CreateMessageReply(err),
                                    ![c].err = err]

MessageNext ==
    \/ \E c \in Callers :
          CreateMessageCall(c)
             /\ UNCHANGED <<daemonVars, verifyVars, sessionVars, lifeVars,
                            bridgeVars>>
    \/ \E c \in Callers, err \in RunErrors \cup {NoError} :
          CreateMessageReturn(c, err)
             /\ UNCHANGED <<daemonVars, verifyVars, sessionVars, lifeVars,
                            bridgeVars>>

(***************************************************************************)
(* The message bridge: the HTTP handler VerifyProducer installs.           *)
(***************************************************************************)
StatusOK == 200
StatusBadRequest == 400
StatusNotFound == 404
StatusServiceUnavailable == 503

\* Descriptions a message may carry; "" is that of the zero message.
Descriptions == {"", "a test message", "another message"}

\* Request bodies: a JSON message with a description, or text that is not
\* JSON.
Bodies == {<<"message", d>> : d \in Descriptions} \cup {<<"junk">>}

\* json.Unmarshal into a zero message, its error dropped: the description is
\* the body's, or stays empty when the body does not parse.
Unmarshal(body) == IF body[1] = "message" THEN body[2] ELSE ""

\* What a handler may return: a map, a nil map, or a map holding a value
\* encoding/json has no encoding for; with or without an error.
HandlerResults == {"hello", "nil", "unsupported"}
HandlerOutcomes ==
    [res : HandlerResults, err : {NoError, <<"handler failed">>}]

\* json.Marshal of a handler's result: <<text>>, or <<>> when it fails.
Marshal(res) ==
    CASE res = "hello" -> <<"{\"content\":{\"text\":\"Hello world!!\"}}">>
      [] res = "nil" -> <<"null">>
      [] OTHER -> <<>>

BridgeInit ==
    /\ bridgeHandlers = <<>>
    /\ bridgeLast = [op |-> "none"]
    /\ bridgeCalls = [d \in Descriptions |-> 0]

\* VerifyProducer is called with a handler mapping: the bridge listens.
VerifyProducer(mapped) ==
    /\ bridgeHandlers = <<>>
    /\ bridgeHandlers' = <<mapped>>
    /\ UNCHANGED <<bridgeLast, bridgeCalls>>

\* VerifyProducer returns: the deferred Close takes the listener down.
VerifyProducerReturn ==
    /\ bridgeHandlers # <<>>
    /\ bridgeHandlers' = <<>>
    /\ UNCHANGED <<bridgeLast, bridgeCalls>>

\* The handler answering 200 whatever the mapped function returned.
BridgeResponseIgnoringError(readOk, body, mapped, out) ==
    IF ~readOk
    THEN [status |-> StatusBadRequest, body |-> <<>>, invoked |-> <<>>]
    ELSE IF Unmarshal(body) \notin mapped
    THEN [status |-> StatusNotFound, body |-> <<>>, invoked |-> <<>>]
    ELSE IF Marshal(out.res) = <<>>
    THEN [status |-> StatusServiceUnavailable, body |-> <<>>,
          invoked |-> <<Unmarshal(body)>>]
    ELSE [status |-> StatusOK, body |-> Marshal(out.res),
          invoked |-> <<Unmarshal(body)>>]

\* The handler's response and the functions it invokes, given whether the
\* body could be read, the body, the mapping's keys and what the function
\* returns if invoked.
BridgeResponse(readOk, body, mapped, out) ==
    IF ~readOk
    THEN [status |-> StatusBadRequest, body |-> <<>>, invoked |-> <<>>]
    ELSE IF Unmarshal(body) \notin mapped
    THEN [status |-> StatusNotFound, body |-> <<>>, invoked |-> <<>>]
    ELSE IF out.err # NoError
    THEN [status |-> StatusServiceUnavailable, body |-> <<>>,
          invoked |-> <<Unmarshal(body)>>]
    ELSE IF Marshal(out.res) = <<>>
    THEN [status |-> StatusServiceUnavailable, body |-> <<>>,
          invoked |-> <<Unmarshal(body)>>]
    ELSE [status |-> StatusOK, body |-> Marshal(out.res),
          invoked |-> <<Unmarshal(body)>>]

\* One request served by the bridge; out is what the mapped function
\* returns, and is kept only for a request that invokes one.
BridgeServe(readOk, body, out) ==
    /\ bridgeHandlers # <<>>
    /\ LET resp == BridgeResponse(readOk, body, bridgeHandlers[1], out)
           outs == IF resp.invoked = <<>> THEN <<>> ELSE <<out>>
       IN /\ bridgeLast' = [op |-> "request", readOk |-> readOk,
                            body |-> body, mapped |-> bridgeHandlers[1],
                            outs |-> outs, resp |-> resp]
          /\ bridgeCalls' =
                [d \in Descriptions |->
                    bridgeCalls[d]
                       + Cardinality({i \in 1..Len(resp.invoked) :
                                         resp.invoked[i] = d})]
          /\ \A d \in Descriptions : bridgeCalls'[d] <= MaxRequests
    /\ UNCHANGED bridgeHandlers

BridgeNext ==
    \/ \E mapped \in SUBSET Descriptions :
          VerifyProducer(mapped)
             /\ UNCHANGED <<daemonVars, verifyVars, sessionVars, lifeVars,
                            messageVars>>
    \/ VerifyProducerReturn
          /\ UNCHANGED <<daemonVars, verifyVars, sessionVars, lifeVars,
                         messageVars>>
    \/ \E readOk \in BOOLEAN, body \in Bodies, out \in HandlerOutcomes :
          BridgeServe(readOk, body, out)
             /\ UNCHANGED <<daemonVars, verifyVars, sessionVars, lifeVars,
                            messageVars>>

Init ==
    /\ DaemonInit
    /\ VerifyInit
    /\ SessionInit
    /\ LifeInit
    /\ MessageInit
    /\ BridgeInit

SpecDaemon == Init /\ [][DaemonNext]_vars

SpecVerify == Init /\ [][VerifyNext]_vars

SpecSession == Init /\ [][SessionNext]_vars

SpecLife == Init /\ [][LifeNext]_vars

SpecMessage == Init /\ [][MessageNext]_vars

SpecBridge == Init /\ [][BridgeNext]_vars

Next ==
    \/ DaemonNext
    \/ VerifyNext
    \/ SessionNext
    \/ LifeNext
    \/ MessageNext
    \/ BridgeNext

Spec == Init /\ [][Next]_vars

(***************************************************************************)
(* Properties of the daemon.                                               *)
(***************************************************************************)
\* C1: when StartServer has returned and the next call to return is
\* ListServers, the list holds exactly one entry with the started instance's
\* pid, exactly one with its port, and it is the same entry.
C1_StartThenListHasInstanceOnce ==
    (lastCall.op = "ListServers" /\ prevCall.op = "StartServer") =>
        LET list == lastCall.reply
            samePid == {i \in 1..Len(list) : list[i].Pid = prevCall.pid}
            samePort == {i \in 1..Len(list) : list[i].Port = prevCall.port}
        IN /\ Cardinality(samePid \cap samePort) = 1
           /\ Cardinality(samePid) = 1
           /\ Cardinality(samePort) = 1

\* C1's case: a list taken right after a start, with another instance in it.
C1_Witness ==
    /\ lastCall.op = "ListServers"
    /\ prevCall.op = "StartServer"
    /\ Len(lastCall.reply) = 2

\* C2: every StopServer call returns nil, and its reply carries the
\* request's pid with status 0 exactly when the manager's Stop reported
\* success and no error, and status 1 otherwise.
C2_StopServerStatusNoRpcError ==
    lastCall.op = "StopServer" =>
        /\ lastCall.err = Nil
        /\ lastCall.reply.Pid = lastCall.request.Pid
        /\ lastCall.reply.Status \in {0, 1}
        /\ (lastCall.reply.Status = 0) <=>
               (lastCall.stop.success /\ lastCall.stop.err = Nil)
        /\ (~lastCall.stop.success \/ lastCall.stop.err # Nil) =>
               lastCall.reply.Status = 1

\* C2's case: a stop of a pid the manager does not track.
C2_Witness ==
    /\ lastCall.op = "StopServer"
    /\ ~lastCall.tracked
    /\ lastCall.reply.Status = 1

\* C3: the second of two consecutive StopServer calls on a started pid
\* returns nil with status 1, and untracks and terminates nothing.
C3_SecondStopFails ==
    (/\ lastCall.op = "StopServer"
     /\ prevCall.op = "StopServer"
     /\ lastCall.request.Pid = prevCall.pid
     /\ prevCall.pid < nextPid) =>
        /\ lastCall.err = Nil
        /\ lastCall.reply.Status = 1
        /\ lastCall.untracked = {}
        /\ lastCall.killed = {}

\* C3's case: a started pid stopped twice in a row while another instance
\* is tracked and running.
C3_Witness ==
    /\ lastCall.op = "StopServer"
    /\ prevCall.op = "StopServer"
    /\ lastCall.request.Pid = prevCall.pid
    /\ prevCall.pid < nextPid
    /\ \E p \in Ports : processes[p] # 0 /\ processes[p] \in alive


(***************************************************************************)
(* Properties of VerifyProvider.                                           *)
(***************************************************************************)
\* C4: a VerifyProvider call whose request fails validation returns the
\* validation error, with no verifier process created or started, nothing
\* written to a pipe and the reply left as the caller passed it.
C4_InvalidRequestSpawnsNothing ==
    (vpPc # "idle" /\ vpRequest.PactURLs = 0 /\ vpRequest.BrokerURL = "") =>
        /\ vpPc = "invalid"
        /\ vpErr = <<"invalid request">>
        /\ vpProc = "none"
        /\ vpWritten = [out |-> <<>>, err |-> <<>>]
        /\ vpReply = "empty"

\* C4's case: a call with no contract location and no broker has returned.
C4_Witness ==
    /\ vpPc = "invalid"
    /\ vpRequest.PactURLs = 0
    /\ vpRequest.BrokerURL = ""
    /\ vpErr # NoError

\* C5: when the stdout VerifyProvider has read begins with a JSON value of
\* the result schema (null standing for the empty result), the call returns
\* no error and the reply is that value, whatever the exit code.
C5_DecodedResultReturnedWhateverExit ==
    (vpPc = "decoded" /\ stdOut # <<>> /\ Head(stdOut) \in {"res1", "null"}) =>
        /\ vpErr = NoError
        /\ vpReply = IF Head(stdOut) = "null" THEN "empty" ELSE Head(stdOut)
        /\ stdOut = vpWritten.out

\* C5's case: a result document on stdout from a process that wrote to
\* stderr and exited with a non-zero code.
C5_Witness ==
    /\ vpPc = "decoded"
    /\ stdOut # <<>>
    /\ Head(stdOut) = "res1"
    /\ vpExit = 1
    /\ stdErr # <<>>
    /\ vpReply = "res1"

\* C6: when the stdout VerifyProvider has read does not decode, the call
\* returns an error whose text is the exit error if the process exited with
\* one, else the decode error, followed by everything the process wrote to
\* stderr and then everything it wrote to stdout.
C6_UndecodableOutputGivesCompositeError ==
    (vpPc = "decoded" /\ (stdOut = <<>> \/ Head(stdOut) = "junk")) =>
        LET cause == IF vpExit # 0 THEN <<"exit status 1">>
                     ELSE IF stdOut = <<>> THEN <<"EOF">>
                     ELSE <<"invalid character">>
        IN vpErr = <<"error verifying provider: ">> \o cause
                     \o <<"STDERR:">> \o vpWritten.err
                     \o <<"STDOUT:">> \o vpWritten.out

\* C6's case: undecodable stdout and some stderr from a process that exited
\* with a non-zero code.
C6_Witness ==
    /\ vpPc = "decoded"
    /\ stdOut # <<>>
    /\ Head(stdOut) = "junk"
    /\ stdErr # <<>>
    /\ vpExit = 1

\* C7: a started VerifyProvider call is never stuck: as long as it has not
\* returned, the verifier process or the handler can take a step (a write,
\* the exit, a read, the wait), so the call goes on to return.
C7_VerifyProviderNeverStuck ==
    vpPc \in {"readStdout", "readStderr", "wait"} =>
        ENABLED (VerifyProgress /\ UNCHANGED <<daemonVars, sessionVars, lifeVars, messageVars, bridgeVars>>)


(***************************************************************************)
(* Properties of the session.                                              *)
(***************************************************************************)
\* C8: a session asks the daemon for a mock server at most once, and an
\* operation asks for one only if the session held no server reference when
\* it began and its Setup was to start one; with a reference held, the
\* launch step does nothing.
C8_LaunchOnlyWithoutServerReference ==
    /\ launches <= 1
    /\ sessLast.op # "none" =>
          /\ sessLast.launched => (~sessLast.hadServer /\ sessLast.start)
          /\ sessLast.hadServer => ~sessLast.launched

\* C8's case: Setup(true) called again on a session that has its server,
\* after a Verify.
C8_Witness ==
    /\ sessLast.op = "Setup"
    /\ sessLast.start
    /\ sessLast.hadServer
    /\ ~sessLast.launched
    /\ sessPrev.op = "Verify"
    /\ launches = 1

AllSucceeded(calls) ==
    /\ \A i \in CallsOf(calls, "AddInteraction") : calls[i].ok
    /\ \E i \in CallsOf(calls, "testFn") : calls[i].ok
    /\ \E i \in CallsOf(calls, "Verify") : calls[i].ok

\* C10: after a Verify whose registrations, test function and verification
\* all succeeded the session's list is empty, and a Verify that follows it
\* directly registers no interaction with the mock service.
C10_ListClearedAfterSuccessfulVerify ==
    /\ (sessLast.op = "Verify" /\ AllSucceeded(sessLast.calls)) =>
          interactions = <<>>
    /\ (sessLast.op = "Verify" /\ sessPrev.op = "Verify" /\ sessPrev.verified) =>
          CallsOf(sessLast.calls, "AddInteraction") = {}

\* C10's case: a Verify that registered two interactions and succeeded,
\* followed by a Verify that succeeds with nothing to register.
C10_Witness ==
    /\ sessLast.op = "Verify"
    /\ sessLast.err = Nil
    /\ sessPrev.op = "Verify"
    /\ sessPrev.verified
    /\ sessPrev.registered = 2

\* C11: Verify registers the pending interactions in list order, all of them
\* before the test function runs; a registration that fails is Verify's last
\* call and its error is the one returned: no later interaction is
\* registered, the test function is not called and no verification is asked
\* for.
C11_RegistrationsInOrderFirstFailureEnds ==
    sessLast.op = "Verify" =>
        LET calls == sessLast.calls
            adds == CallsOf(calls, "AddInteraction")
            tests == CallsOf(calls, "testFn")
        IN /\ adds = 1..Cardinality(adds)
           /\ Cardinality(adds) <= Len(sessLast.list)
           /\ \A i \in adds : calls[i].arg = sessLast.list[i]
           /\ tests # {} => Cardinality(adds) = Len(sessLast.list)
           /\ \A i \in adds :
                 ~calls[i].ok =>
                    /\ i = Len(calls)
                    /\ sessLast.err = "AddInteraction failed"
                    /\ tests = {}
                    /\ CallsOf(calls, "Verify") = {}

\* C11's case: a Verify with two pending interactions whose first
\* registration fails.
C11_Witness ==
    /\ sessLast.op = "Verify"
    /\ Len(sessLast.list) = 2
    /\ Len(sessLast.calls) = 1
    /\ ~sessLast.calls[1].ok

\* C12: when the test function reports an error, Verify returns that error
\* and asks the mock service neither to verify nor to delete.
C12_TestErrorReturnedNothingAfter ==
    sessLast.op = "Verify" =>
        \A i \in CallsOf(sessLast.calls, "testFn") :
            ~sessLast.calls[i].ok =>
                /\ sessLast.err = "testFn failed"
                /\ CallsOf(sessLast.calls, "Verify") = {}
                /\ CallsOf(sessLast.calls, "DeleteInteractions") = {}

\* C12's case: a Verify that registered two interactions and whose test
\* function failed.
C12_Witness ==
    /\ sessLast.op = "Verify"
    /\ Len(sessLast.calls) = 3
    /\ sessLast.calls[3].call = "testFn"
    /\ ~sessLast.calls[3].ok

\* What a Teardown that held a server reference leaves behind.
TeardownWithServer ==
    (sessLast.op = "Teardown" /\ sessLast.hadServer) =>
        /\ sessLast.stops = 1
        /\ server = sessLast.stopped
        /\ daemon = "running" =>
              /\ lastCall.op = "StopServer"
              /\ lastCall.reply = server[1]

\* A step in which a Teardown without a server reference returns: it asks the
\* daemon for nothing and changes none of the session's state.
TeardownWithoutServer ==
    (/\ <<sessLast, sessPrev>>' # <<sessLast, sessPrev>>
     /\ sessLast'.op = "Teardown"
     /\ ~sessLast'.hadServer) =>
        /\ sessLast'.stops = 0
        /\ UNCHANGED <<config, pactClient, server, interactions,
                       nextInteraction, launches, tornDown, daemonVars>>

\* C13: a Teardown on a session holding a server reference asks the daemon to
\* stop the server once and installs the handle that comes back; one on a
\* session without a reference makes no daemon call and changes no session
\* state.
C13_TeardownStopsOnceOrNothing ==
    []TeardownWithServer /\ [][TeardownWithoutServer]_vars

\* C13's case: a Teardown whose stop came back flagged as failed, installed
\* as the session's reference.
C13_Witness ==
    /\ sessLast.op = "Teardown"
    /\ sessLast.hadServer
    /\ sessLast.stops = 1
    /\ server[1].Status = 1
    /\ lastCall.op = "StopServer"

\* C13's other case: a Teardown on a session that never had a server.
C13_WitnessNoServer ==
    /\ sessLast.op = "Teardown"
    /\ ~sessLast.hadServer
    /\ sessPrev.op = "Setup"
    /\ config.Host # ""

C16_SpawnFailureLeavesDaemonUp ==
    daemon = "running"

(***************************************************************************)
(* Properties of the daemon's lifetime.                                    *)
(***************************************************************************)
\* C14: every StopDaemon call returns: a call that has not yet sent its
\* signal can send it now, or the main loop can take a signal from the
\* channel and so make room for it.
C14_StopDaemonAlwaysReturns ==
    sending > 0 =>
        \/ ENABLED (StopDaemonSend
                       /\ UNCHANGED <<daemonVars, verifyVars, sessionVars, messageVars, bridgeVars>>)
        \/ ENABLED (LoopReceive
                       /\ UNCHANGED <<daemonVars, verifyVars, sessionVars, messageVars, bridgeVars>>)

\* C15: when StartDaemon has come back from Shutdown, Stop has been called
\* for every mock-service instance that StartServer had started and that was
\* still tracked when Shutdown began.
C15_ShutdownStopsEveryStartedInstance ==
    loopPc = "done" => atShutdown \subseteq {asked[i] : i \in DOMAIN asked}

\* C20: Shutdown is called at most once, not before the main loop has taken
\* a signal from the channel, and once it has been called no further signal
\* or StopDaemon call has it called again.
C20_ShutdownOnceAfterSignal ==
    /\ shutdowns <= 1
    /\ loopPc \in {"new", "waiting"} => shutdowns = 0
    /\ loopPc \in {"shutdown", "done"} => shutdowns = 1
    /\ shutdowns + signalChan <= signals + (stopCalls - sending)

\* C20's case: StartDaemon has returned after one Shutdown, and a StopDaemon
\* call that came after the first signal has left its signal in the channel.
C20_Witness ==
    /\ loopPc = "done"
    /\ shutdowns = 1
    /\ signals = 1
    /\ stopCalls >= 1
    /\ sending = 0
    /\ signalChan = 1

(***************************************************************************)
(* Properties of CreateMessage and of the message bridge.                  *)
(***************************************************************************)
\* C17: a CreateMessage call that has returned has run the message
\* production once; if the run failed the reply's error field is the error's
\* text and the call returned that error, and if it succeeded the field is
\* empty and the call returned nil.
C17_CreateMessageReportsRunError ==
    \A c \in Callers :
        messages[c].pc = "returned" =>
            /\ messages[c].runs = 1
            /\ messages[c].err = messages[c].run
            /\ messages[c].run # NoError =>
                  messages[c].reply.Error = messages[c].run[1]
            /\ messages[c].run = NoError => messages[c].reply.Error = ""

\* C17's case: a caller whose first call failed and whose second, with the
\* first one's text still in the reply, succeeded, while another caller's
\* call failed.
C17_Witness ==
    \E c, other \in Callers :
        /\ c # other
        /\ messages[c].pc = "returned"
        /\ messages[c].calls = 2
        /\ messages[c].run = NoError
        /\ messages[other].pc = "returned"
        /\ messages[other].run = <<"exit status 1">>
        /\ messages[other].reply.Error = "exit status 1"

\* What holds of every response of the bridge, whatever the function
\* returned: an unmapped description gives 404 with no body and no function
\* invoked, a function that returns an error gives 503, and a request with a
\* mapped description invokes that function and no other.
BridgeDispatch ==
    LET d == Unmarshal(bridgeLast.body)
        resp == bridgeLast.resp
    IN /\ d \notin bridgeLast.mapped =>
             /\ resp.status = StatusNotFound
             /\ resp.body = <<>>
             /\ resp.invoked = <<>>
       /\ d \in bridgeLast.mapped =>
             /\ resp.invoked = <<d>>
             /\ bridgeLast.outs[1].err # NoError =>
                   resp.status = StatusServiceUnavailable

\* C18, as stated: for a request whose body was read, the bridge dispatches
\* on the description, and a mapped function that returns no error gives 200
\* with its result as the JSON body.
C18_BridgeDispatchAsStated ==
    (bridgeLast.op = "request" /\ bridgeLast.readOk) =>
        /\ BridgeDispatch
        /\ (/\ Unmarshal(bridgeLast.body) \in bridgeLast.mapped
            /\ bridgeLast.outs[1].err = NoError) =>
               /\ bridgeLast.resp.status = StatusOK
               /\ bridgeLast.resp.body # <<>>
               /\ bridgeLast.resp.body = Marshal(bridgeLast.outs[1].res)

\* C18, amended: a mapped function that returns no error gives 200 with its
\* result as the JSON body when the result can be marshalled, and 503 with
\* no body when it cannot; the rest of the dispatch is as stated.
C18_BridgeDispatch ==
    (bridgeLast.op = "request" /\ bridgeLast.readOk) =>
        /\ BridgeDispatch
        /\ (/\ Unmarshal(bridgeLast.body) \in bridgeLast.mapped
            /\ bridgeLast.outs[1].err = NoError) =>
               IF Marshal(bridgeLast.outs[1].res) # <<>>
               THEN /\ bridgeLast.resp.status = StatusOK
                    /\ bridgeLast.resp.body = Marshal(bridgeLast.outs[1].res)
               ELSE /\ bridgeLast.resp.status = StatusServiceUnavailable
                    /\ bridgeLast.resp.body = <<>>

\* C18's case: the function mapped to "a test message" returned a result that
\* cannot be marshalled, after it had been invoked once before, with another
\* description mapped as well.
C18_Witness ==
    /\ bridgeLast.op = "request"
    /\ bridgeLast.readOk
    /\ bridgeLast.body = <<"message", "a test message">>
    /\ bridgeLast.mapped = {"a test message", "another message"}
    /\ bridgeLast.outs = <<[res |-> "unsupported", err |-> NoError]>>
    /\ bridgeLast.resp.status = StatusServiceUnavailable
    /\ bridgeCalls["a test message"] = 2
    /\ bridgeCalls["another message"] = 0

C21_WitnessNilEntry ==
    /\ loopPc = "done"
    /\ \E k \in listed : verifiers[k] = NilEntry
    /\ asked = <<>>

\* C22: after AddInteraction, which runs Setup(true) and calls the mock
\* service for nothing, the session holds a server reference; the list is the
\* list as it was with one entry more at its end, that entry is the
\* interaction returned, and it is none of the entries that were there.
C22_AddInteractionAppendsOne ==
    sessLast.op = "AddInteraction" =>
        LET before == sessLast.list
        IN /\ sessLast.start
           /\ server # <<>>
           /\ sessLast.calls = <<>>
           /\ Len(sessLast.result) = 1
           /\ Len(interactions) = Len(before) + 1
           /\ SubSeq(interactions, 1, Len(before)) = before
           /\ interactions[Len(interactions)] = sessLast.result[1]
           /\ \A i \in 1..Len(before) : before[i] # sessLast.result[1]

\* C22's case: AddInteraction on a session that already has a server and one
\* interaction in its list.
C22_Witness ==
    /\ sessLast.op = "AddInteraction"
    /\ sessLast.hadServer
    /\ Len(sessLast.list) = 1
    /\ Len(interactions) = 2

\* C23: after a Verify that returned the error of a registration, of the
\* test function or of the mock service's verification, the list is what it
\* was when Verify began; the list differs from that only if the
\* verification succeeded, and then it is empty, also when the deletion
\* that follows failed.
C23_ListKeptOnErrorClearedOnceVerified ==
    sessLast.op = "Verify" =>
        /\ sessLast.err \in {"AddInteraction failed", "testFn failed",
                              "Verify failed"} =>
              interactions = sessLast.list
        /\ interactions # sessLast.list => Accepted(sessLast.calls, "Verify")
        /\ Accepted(sessLast.calls, "Verify") => interactions = <<>>
        /\ sessLast.err = "DeleteInteractions failed" =>
              (Accepted(sessLast.calls, "Verify") /\ interactions = <<>>)

\* C23's case: a Verify with two interactions whose verification succeeded
\* and whose deletion failed.
C23_Witness ==
    /\ sessLast.op = "Verify"
    /\ Len(sessLast.list) = 2
    /\ sessLast.err = "DeleteInteractions failed"
    /\ interactions = <<>>

\* C23's other case: a Verify with two interactions whose verification
\* failed.
C23_WitnessVerifyFailed ==
    /\ sessLast.op = "Verify"
    /\ sessLast.err = "Verify failed"
    /\ Len(interactions) = 2

====
